---- MODULE Spec2Model ----
(***************************************************************************)
(* Model of the swww daemon: main loop, control socket, shutdown flag,     *)
(* compositor callbacks and the per-output Wallpaper (Output Surface).     *)
(*                                                                         *)
(* A pixel buffer is kept run-length encoded: `px` is a sequence of runs   *)
(* of identical 3-byte pixels and `tail` holds the bytes that do not make  *)
(* up a whole pixel (the remainder chunks_exact leaves alone).  The byte   *)
(* string denoted is the runs in order followed by the tail.               *)
(***************************************************************************)
EXTENDS Integers, Sequences, FiniteSets, TLC

----------------------------------------------------------------------------
(* Bounds of the model *)

MaxEvents == 3

MaxConns == 2

MaxSignals == 1

----------------------------------------------------------------------------
(* Program constants and input domains *)

DefaultDim == 256

OutputIds == {1, 2}

\* Option values: None is the empty sequence
NoName == ""

NoSize == <<>>

OutputName(id) == IF id = 1 THEN "A" ELSE "B"

Scales == {1, 2}

ConfigureSizes == {<<0, 0>>, <<1, 2>>}

Info(id, name, size, scale) ==
    [id |-> id, name |-> name, logical_size |-> size, scale_factor |-> scale]

\* what the compositor may report of an output: the first output named and
\* sized at either scale, unnamed and of unknown size, or of a degenerate
\* size; the second output named and sized at either scale
OutputInfos(id) ==
    IF id = 1
    THEN {Info(1, "A", <<2, 1>>, s) : s \in Scales}
         \cup {Info(1, NoName, NoSize, 1), Info(1, "A", <<0, 1>>, 1)}
    ELSE {Info(id, OutputName(id), <<2, 1>>, s) : s \in Scales}

Black == <<0, 0, 0>>

Colors == {Black, <<1, 2, 3>>}

Filters == {<<>>, <<"A">>, <<"Z">>}

----------------------------------------------------------------------------
(* Byte buffers *)

Run(n, p) == [n |-> n, px |-> p]

RECURSIVE NPix(_)
NPix(runs) == IF runs = <<>> THEN 0 ELSE Head(runs).n + NPix(Tail(runs))

BufLen(b) == 3 * NPix(b.px) + Len(b.tail)

RECURSIVE Normalize(_)
Normalize(runs) ==
    IF Len(runs) < 2 THEN runs
    ELSE LET rest == Normalize(Tail(runs))
         IN  IF Head(runs).px = Head(rest).px
             THEN <<Run(Head(runs).n + Head(rest).n, Head(runs).px)>> \o Tail(rest)
             ELSE <<Head(runs)>> \o rest

\* vec![0; len]
ZeroVec(len) ==
    [px   |-> IF len \div 3 = 0 THEN <<>> ELSE <<Run(len \div 3, Black)>>,
     tail |-> [i \in 1..(len % 3) |-> 0]]

\* payloads a client may send with a set-image request
MkImg(n, extra) ==
    [px   |-> IF n = 1 THEN <<Run(1, <<1, 2, 3>>)>>
              ELSE <<Run(1, <<1, 2, 3>>), Run(n - 1, <<4, 5, 6>>)>>,
     tail |-> [i \in 1..extra |-> 9]]

ImgPayloads == {MkImg(2, 0), MkImg(4, 0), MkImg(2, 1)}

\* an image of n pixels of one colour
Plain(n) == [px |-> <<Run(n, <<7, 8, 9>>)>>, tail |-> <<>>]

----------------------------------------------------------------------------
(* Wallpaper (wallpaper.rs) *)

\* BgImg::Color(c) and BgImg::Img(path)
ColorTag(c) == [kind |-> "Color", color |-> c, path |-> ""]

ImgTag(p) == [kind |-> "Img", color |-> <<>>, path |-> p]

\* NonZeroU32::saturating_mul; the dimensions of the model stay far below
\* u32::MAX, where the product saturates
saturating_mul(a, b) == a * b

\* the length expression of Wallpaper::new and Wallpaper::resize
BufBytes(width, height, scale_factor) == width * height * scale_factor * 3

set_inner_len(new_len) == ZeroVec(new_len)

\* st is "NonZeroU32" when a NonZeroU32::new(..).unwrap() meets a zero and
\* panics; w is then meaningless.
Wallpaper_new(output_info, layer_surface) ==
    LET size   == output_info.logical_size
        width  == IF size = NoSize THEN DefaultDim ELSE size[1]
        height == IF size = NoSize THEN DefaultDim ELSE size[2]
        scale  == output_info.scale_factor
    IN  [st |-> IF width = 0 \/ height = 0 \/ scale = 0 THEN "NonZeroU32" ELSE "ok",
         w  |-> [output_id     |-> output_info.id,
                 width         |-> width,
                 height        |-> height,
                 scale_factor  |-> scale,
                 buf           |-> ZeroVec(BufBytes(width, height, scale)),
                 img           |-> ColorTag(Black),
                 layer_surface |-> layer_surface]]

clear(w, color) ==
    [w EXCEPT !.buf = [px   |-> Normalize([i \in 1..Len(w.buf.px) |->
                                   Run(w.buf.px[i].n, color)]),
                       tail |-> w.buf.tail],
              !.img = ColorTag(color)]

\* copy_from_slice panics unless both slices have the same length
set_img(w, img, path) ==
    IF BufLen(img) # BufLen(w.buf) THEN [st |-> "copy_from_slice", w |-> w]
    ELSE [st |-> "ok", w |-> [w EXCEPT !.buf = img, !.img = ImgTag(path)]]

\* resize that keeps the content tag
resize_keeps_tag(w, width, height, scale_factor) ==
    [w EXCEPT !.width = width, !.height = height, !.scale_factor = scale_factor,
              !.buf = set_inner_len(BufBytes(width, height, scale_factor))]

resize(w, width, height, scale_factor) ==
    [w EXCEPT !.width = width, !.height = height, !.scale_factor = scale_factor,
              !.buf = set_inner_len(BufBytes(width, height, scale_factor)),
              !.img = ColorTag(Black)]

\* What the graphics stack does with the draws of one callback or request:
\*   "ok"            every call succeeds; an upload that reads past the end of
\*                   the buffer gets whatever lies there
\*   "make_current"  context.make_current returns Err, its unwrap panics
\*   "swap_buffers"  swap_buffers_with_damage returns Err, its unwrap panics
\*   "segv"          an upload that reads past the end of the buffer faults;
\*                   an upload inside the buffer succeeds
DrawEnvs == {"ok", "make_current", "swap_buffers", "segv"}

\* the call Wallpaper::draw makes to Renderer::draw
DrawCall(w) ==
    [layer  |-> w.layer_surface,
     width  |-> saturating_mul(w.width, w.scale_factor),
     height |-> saturating_mul(w.height, w.scale_factor),
     len    |-> BufLen(w.buf),
     buf    |-> w.buf]

\* TexImage2D reads width * height * 3 bytes starting at the buffer
Overread(call) == call.width * call.height * 3 > call.len

draw(w, env) ==
    IF env = "make_current" THEN [log |-> <<>>, st |-> env]
    ELSE IF env = "segv" /\ Overread(DrawCall(w))
         THEN [log |-> <<DrawCall(w)>>, st |-> env]
    ELSE IF env = "swap_buffers" THEN [log |-> <<DrawCall(w)>>, st |-> env]
    ELSE [log |-> <<DrawCall(w)>>, st |-> "ok"]

----------------------------------------------------------------------------
(* Daemon (main.rs).  `outs` is OutputState's list of output infos in the   *)
(* order the outputs were announced, `ws` is Daemon::wallpapers.  A handler *)
(* yields the new wallpapers, the draws it issued and how it ended: "ok",   *)
(* "segv" (the process was killed by a fault), or the name of the call      *)
(* whose unwrap panicked.                                                   *)

Contains(seq, x) == \E i \in 1..Len(seq) : seq[i] = x

Result(ws, log, st) == [ws |-> ws, log |-> log, st |-> st]

\* index of the first wallpaper of the layer surface / the output, 0 if none
FirstByLayer(ws, layer) ==
    IF \E i \in 1..Len(ws) : ws[i].layer_surface = layer
    THEN CHOOSE i \in 1..Len(ws) :
             /\ ws[i].layer_surface = layer
             /\ \A j \in 1..(i - 1) : ws[j].layer_surface # layer
    ELSE 0

FirstByOutput(ws, id) ==
    IF \E i \in 1..Len(ws) : ws[i].output_id = id
    THEN CHOOSE i \in 1..Len(ws) :
             /\ ws[i].output_id = id
             /\ \A j \in 1..(i - 1) : ws[j].output_id # id
    ELSE 0

\* wallpapers_info that reports the content tag of the first wallpaper for
\* every output
wallpapers_info_first_tag(outs, ws) ==
    LET shown(info) == FirstByOutput(ws, info.id) # 0
        live == SelectSeq(outs, shown)
    IN  [i \in 1..Len(live) |->
            [name         |-> IF live[i].name = NoName THEN "?" ELSE live[i].name,
             dim          |-> IF live[i].logical_size = NoSize THEN <<0, 0>>
                              ELSE live[i].logical_size,
             scale_factor |-> live[i].scale_factor,
             img          |-> ws[1].img]]

wallpapers_info(outs, ws) ==
    LET shown(info) == FirstByOutput(ws, info.id) # 0
        live == SelectSeq(outs, shown)
    IN  [i \in 1..Len(live) |->
            [name         |-> IF live[i].name = NoName THEN "?" ELSE live[i].name,
             dim          |-> IF live[i].logical_size = NoSize THEN <<0, 0>>
                              ELSE live[i].logical_size,
             scale_factor |-> live[i].scale_factor,
             img          |-> ws[FirstByOutput(ws, live[i].id)].img]]

\* find_wallpapers_id_by_names that falls back to every named output when
\* no name of the filter is known
find_wallpapers_id_by_names_or_all(outs, names) ==
    LET keep(info) == /\ info.name # NoName
                      /\ (names = <<>> \/ Contains(names, info.name))
        named(info) == info.name # NoName
        kept == IF SelectSeq(outs, keep) = <<>> THEN SelectSeq(outs, named)
                ELSE SelectSeq(outs, keep)
    IN  [i \in 1..Len(kept) |-> kept[i].id]

find_wallpapers_id_by_names(outs, names) ==
    LET keep(info) == /\ info.name # NoName
                      /\ (names = <<>> \/ Contains(names, info.name))
        kept == SelectSeq(outs, keep)
    IN  [i \in 1..Len(kept) |-> kept[i].id]

RECURSIVE clear_from(_, _, _, _, _, _)
clear_from(ws, i, ids, color, env, log) ==
    IF i > Len(ws) THEN Result(ws, log, "ok")
    ELSE IF Contains(ids, ws[i].output_id)
    THEN LET w2  == clear(ws[i], color)
             d   == draw(w2, env)
             ws2 == [ws EXCEPT ![i] = w2]
         IN  IF d.st = "ok"
             THEN clear_from(ws2, i + 1, ids, color, env, log \o d.log)
             ELSE Result(ws2, log \o d.log, d.st)
    ELSE clear_from(ws, i + 1, ids, color, env, log)

clear_by_id(ws, ids, color, env) == clear_from(ws, 1, ids, color, env, <<>>)

RECURSIVE set_img_from(_, _, _, _, _, _, _)
set_img_from(ws, i, ids, img, path, env, log) ==
    IF i > Len(ws) THEN Result(ws, log, "ok")
    ELSE IF Contains(ids, ws[i].output_id)
    THEN LET s   == set_img(ws[i], img, path)
             d   == draw(s.w, env)
             ws2 == [ws EXCEPT ![i] = s.w]
         IN  IF s.st # "ok" THEN Result(ws, log, s.st)
             ELSE IF d.st = "ok"
             THEN set_img_from(ws2, i + 1, ids, img, path, env, log \o d.log)
             ELSE Result(ws2, log \o d.log, d.st)
    ELSE set_img_from(ws, i + 1, ids, img, path, env, log)

set_img_by_id(ws, ids, img, path, env) ==
    set_img_from(ws, 1, ids, img, path, env, <<>>)

(* CompositorHandler *)

scale_factor_changed(ws, surface, new_factor, env) ==
    LET i == FirstByLayer(ws, surface) IN
    IF i = 0 THEN Result(ws, <<>>, "ok")
    ELSE IF new_factor = 0 THEN Result(ws, <<>>, "NonZeroU32")
    ELSE LET w2 == resize(ws[i], ws[i].width, ws[i].height, new_factor)
             d  == draw(w2, env)
         IN  Result([ws EXCEPT ![i] = w2], d.log, d.st)

\* frame that draws the matching wallpaper twice
frame_draws_twice(ws, surface, env) ==
    LET i == FirstByLayer(ws, surface) IN
    IF i = 0 THEN Result(ws, <<>>, "ok")
    ELSE LET d == draw(ws[i], env) IN Result(ws, d.log \o d.log, d.st)

frame(ws, surface, env) ==
    LET i == FirstByLayer(ws, surface) IN
    IF i = 0 THEN Result(ws, <<>>, "ok")
    ELSE LET d == draw(ws[i], env) IN Result(ws, d.log, d.st)

(* OutputHandler *)

\* new_output that pushes the new wallpaper twice
new_output_pushes_twice(ws, output_info, layer_surface) ==
    LET n == Wallpaper_new(output_info, layer_surface) IN
    IF n.st = "ok" THEN Result(Append(Append(ws, n.w), n.w), <<>>, "ok")
    ELSE Result(ws, <<>>, n.st)

new_output(ws, output_info, layer_surface) ==
    LET n == Wallpaper_new(output_info, layer_surface) IN
    IF n.st = "ok" THEN Result(Append(ws, n.w), <<>>, "ok")
    ELSE Result(ws, <<>>, n.st)

\* update_output that resizes whenever the size is valid
update_output_always_resizes(ws, output_info) ==
    LET size == output_info.logical_size
        i    == FirstByOutput(ws, output_info.id)
    IN  IF size = NoSize THEN Result(ws, <<>>, "ok")
        ELSE IF size[1] = 0 \/ size[2] = 0 THEN Result(ws, <<>>, "ok")
        ELSE IF i = 0 THEN Result(ws, <<>>, "ok")
        ELSE Result([ws EXCEPT ![i] = resize(ws[i], size[1], size[2],
                                             output_info.scale_factor)],
                    <<>>, "ok")

update_output(ws, output_info) ==
    LET size == output_info.logical_size
        i    == FirstByOutput(ws, output_info.id)
    IN  IF size = NoSize THEN Result(ws, <<>>, "ok")
        ELSE IF size[1] = 0 \/ size[2] = 0 THEN Result(ws, <<>>, "ok")
        ELSE IF i = 0 THEN Result(ws, <<>>, "ok")
        ELSE IF output_info.scale_factor = 0 THEN Result(ws, <<>>, "NonZeroU32")
        ELSE IF <<size[1], size[2], output_info.scale_factor>>
                # <<ws[i].width, ws[i].height, ws[i].scale_factor>>
        THEN Result([ws EXCEPT ![i] = resize(ws[i], size[1], size[2],
                                             output_info.scale_factor)],
                    <<>>, "ok")
        ELSE Result(ws, <<>>, "ok")

\* output_destroyed that retains every wallpaper
output_destroyed_keeps_all(ws, output_info) == Result(ws, <<>>, "ok")

output_destroyed(ws, output_info) ==
    LET other(w) == w.output_id # output_info.id
    IN  Result(SelectSeq(ws, other), <<>>, "ok")

(* LayerShellHandler *)

\* closed that removes the oldest wallpaper, whatever its layer surface
closed_removes_first(ws, layer) ==
    Result(IF ws = <<>> THEN ws ELSE Tail(ws), <<>>, "ok")

closed(ws, layer) ==
    LET other(w) == w.layer_surface # layer
    IN  Result(SelectSeq(ws, other), <<>>, "ok")

\* configure that applies the acknowledged size as it comes
configure_no_fallback(ws, layer, new_size, env) ==
    LET i == FirstByLayer(ws, layer)
    IN  IF i = 0 THEN Result(ws, <<>>, "ok")
        ELSE LET w2 == resize(ws[i], new_size[1], new_size[2], ws[i].scale_factor)
                 d  == draw(w2, env)
             IN  Result([ws EXCEPT ![i] = w2], d.log, d.st)

configure(ws, layer, new_size, env) ==
    LET i      == FirstByLayer(ws, layer)
        degen  == new_size[1] = 0 \/ new_size[2] = 0
        width  == IF degen THEN DefaultDim ELSE new_size[1]
        height == IF degen THEN DefaultDim ELSE new_size[2]
    IN  IF i = 0 THEN Result(ws, <<>>, "ok")
        ELSE LET w2 == resize(ws[i], width, height, ws[i].scale_factor)
                 d  == draw(w2, env)
             IN  Result([ws EXCEPT ![i] = w2], d.log, d.st)

----------------------------------------------------------------------------
(* Requests and answers (utils::communication) *)

Req(kind, color, outputs, imgs) ==
    [kind |-> kind, color |-> color, outputs |-> outputs, imgs |-> imgs]

NoReq == Req("None", <<>>, <<>>, <<>>)

\* Request::receive returned Err
Unreadable == Req("Unreadable", <<>>, <<>>, <<>>)

ImgPair(b, p, f) == [img |-> b, path |-> p, outputs |-> f]

\* the requests clients send: every kind, and set-image requests of one pair
\* and of two pairs
Requests ==
    {Req(k, <<>>, <<>>, <<>>) : k \in {"Animation", "Init", "Kill", "Query"}}
    \cup {Req("Clear", c, f, <<>>) : c \in Colors, f \in Filters}
    \cup {Req("Img", <<>>, <<>>, <<ImgPair(b, "p1", f)>>) :
              b \in ImgPayloads, f \in Filters}
    \cup {Req("Img", <<>>, <<>>, <<ImgPair(a, "p1", <<>>), ImgPair(b, "p2", f)>>) :
              a \in ImgPayloads, b \in {Plain(2), MkImg(2, 1)},
              f \in {<<"A">>, <<"Z">>}}

Answer(kind, msg, info) == [kind |-> kind, msg |-> msg, info |-> info]

AnswerOk == Answer("Ok", "", <<>>)

NoAnswer == Answer("None", "", <<>>)

\* the loop of the Request::Img arm
RECURSIVE set_imgs(_, _, _, _, _)
\* the loop of the Request::Img arm leaving after its first pair
set_imgs_first_pair(outs, ws, imgs, env, log) ==
    IF imgs = <<>> THEN Result(ws, log, "ok")
    ELSE LET ids == find_wallpapers_id_by_names(outs, Head(imgs).outputs)
             r   == set_img_by_id(ws, ids, Head(imgs).img, Head(imgs).path, env)
         IN  Result(r.ws, log \o r.log, r.st)

set_imgs(outs, ws, imgs, env, log) ==
    IF imgs = <<>> THEN Result(ws, log, "ok")
    ELSE LET ids == find_wallpapers_id_by_names(outs, Head(imgs).outputs)
             r   == set_img_by_id(ws, ids, Head(imgs).img, Head(imgs).path, env)
         IN  IF r.st = "ok"
             THEN set_imgs(outs, r.ws, Tail(imgs), env, log \o r.log)
             ELSE Result(r.ws, log \o r.log, r.st)

\* a read failure answered as a success
receive_failed_ok(ws) ==
    [res |-> Result(ws, <<>>, "ok"), answer |-> AnswerOk]

\* the arm  Err(e) => Answer::Err(e)  of recv_socket_msg; "receive" stands
\* for the failure description e
receive_failed(ws) ==
    [res |-> Result(ws, <<>>, "ok"), answer |-> Answer("Err", "receive", <<>>)]

\* an animation request answered as a success
not_implemented_ok(ws) ==
    [res |-> Result(ws, <<>>, "ok"), answer |-> AnswerOk]

\* the arm  Request::Animation(_) => Answer::Err("Not implemented")
not_implemented(ws) ==
    [res |-> Result(ws, <<>>, "ok"),
     answer |-> Answer("Err", "Not implemented", <<>>)]

\* The match of recv_socket_msg for every request but Kill: the effect on the
\* wallpapers and the answer.
answer_request(outs, ws, request, env) ==
    CASE request.kind = "Unreadable" -> receive_failed(ws)
      [] request.kind = "Animation" -> not_implemented(ws)
      [] request.kind = "Clear" ->
            [res |-> clear_by_id(ws,
                        find_wallpapers_id_by_names(outs, request.outputs),
                        request.color, env),
             answer |-> AnswerOk]
      [] request.kind = "Init" ->
            [res |-> Result(ws, <<>>, "ok"), answer |-> AnswerOk]
      [] request.kind = "Query" ->
            [res |-> Result(ws, <<>>, "ok"),
             answer |-> Answer("Info", "", wallpapers_info(outs, ws))]
      [] request.kind = "Img" ->
            [res |-> set_imgs(outs, ws, request.imgs, env, <<>>),
             answer |-> AnswerOk]

----------------------------------------------------------------------------
(* State *)

VARIABLES
    pc,          \* where the main thread is in main()
    result,      \* how main() ends: "none", "ok", "err" (Err returned), "segv",
                 \* or the name of the call that panicked
    EXIT,        \* the value inside the static EXIT lock
    exitLock,    \* how the main thread holds EXIT: "free", "read", "write"
    handler,     \* the signal handler: "idle", or "blocked" in EXIT.write()
    sockPath,    \* the socket path exists in the file system
    bound,       \* this instance bound the socket path
    outs,        \* OutputState: infos of the live outputs, in announce order
    wallpapers,  \* Daemon::wallpapers
    nextLayer,   \* the next layer surface the compositor state creates
    wlSocket,    \* protocol events waiting on the wayland descriptor
    wlQueue,     \* protocol events read into the event queue, not dispatched
    connPending, \* the listener's backlog: the numbers of the connections
                 \* waiting to be accepted, oldest first
    evSent,      \* protocol events the compositor has sent
    connSent,    \* connections clients have made
    sigSent,     \* signals delivered
    wlReady,     \* revents of PollHandler::WAYLAND_FD is not empty
    sockReady,   \* revents of PollHandler::SOCKET_FD is not empty
    intr,        \* a signal arrived while the thread waits in poll
    conn,        \* the connection accepted last (id: its number in order of
                 \* arrival); its request and answer are dropped when
                 \* recv_socket_msg returns
    drawLog,     \* the Renderer::draw calls of the callback or request the
                 \* main thread has just handled
    hist         \* history: whether the loop body was ever entered, and the
                 \* last two callbacks of the dispatch_pending call under way

vars == <<pc, result, EXIT, exitLock, handler, sockPath, bound, outs, wallpapers,
          nextLayer, wlSocket, wlQueue, connPending, evSent, connSent, sigSent,
          wlReady, sockReady, intr, conn, drawLog, hist>>

mainVars == <<pc, result, exitLock, wlReady, sockReady, conn>>

daemonVars == <<outs, wallpapers, nextLayer, drawLog, hist>>

envVars == <<wlSocket, wlQueue, connPending, evSent, connSent>>

NoConn == [id |-> 0, open |-> FALSE, reads |-> 0, sends |-> 0,
           request |-> NoReq, answer |-> NoAnswer]

NoTag == [kind |-> "None", color |-> <<>>, path |-> ""]

\* a dispatched callback: its name, the output identity or layer surface it
\* is about, the size or factor it carries, and the content tag its
\* wallpaper had when it was called (NoTag if it has none)
Ev(ev, key, size, img) == [ev |-> ev, key |-> key, size |-> size, img |-> img]

NoEv == Ev("", 0, <<>>, NoTag)

NoHist == [entered |-> FALSE, prev |-> NoEv, last |-> NoEv]

\* the callback e has returned
Shift(e) == [hist EXCEPT !.prev = hist.last, !.last = e]

\* dispatch_pending has returned, or main() is left
Forget == [hist EXCEPT !.prev = NoEv, !.last = NoEv]

Init ==
    /\ pc = "new_socket"
    /\ result = "none"
    /\ EXIT = FALSE
    /\ exitLock = "free"
    /\ handler = "idle"
    /\ sockPath \in BOOLEAN
    /\ bound = FALSE
    /\ outs = <<>>
    /\ wallpapers = <<>>
    /\ nextLayer = 1
    /\ wlSocket = 0
    /\ wlQueue = 0
    /\ connPending = <<>>
    /\ evSent = 0
    /\ connSent = 0
    /\ sigSent = 0
    /\ wlReady = FALSE
    /\ sockReady = FALSE
    /\ intr = FALSE
    /\ conn = NoConn
    /\ drawLog = <<>>
    /\ hist = NoHist

Running == handler = "idle" /\ pc \notin {"done", "crashed"}

\* the call returns and main() goes on at `next`
Continue(next) == pc' = next /\ UNCHANGED result

\* main() is left, by return (res "ok" or "err") or by a panic that unwinds
\* (res names the call):
\* its locals are dropped in reverse order of declaration, the Daemon with
\* its wallpapers and output state first; the listener is the one left
Leave(res) ==
    /\ pc' = "exit"
    /\ result' = res
    /\ outs' = <<>>
    /\ wallpapers' = <<>>
    /\ nextLayer' = 1
    /\ hist' = Forget

\* the process is killed on the spot; nothing is dropped, its memory is gone
Killed ==
    /\ pc' = "crashed"
    /\ result' = "segv"
    /\ outs' = <<>>
    /\ wallpapers' = <<>>
    /\ nextLayer' = 1
    /\ hist' = Forget

\* a call of main() that touches no wallpaper: it returns, or its expect
\* panics
Expect(next) ==
    /\ \/ Continue(next) /\ UNCHANGED <<outs, wallpapers, nextLayer, hist>>
       \/ Leave("expect")
    /\ drawLog' = <<>>

----------------------------------------------------------------------------
(* main(): start-up *)

\* SocketWrapper::new.  The path exists beforehand when another instance
\* owns it, and bind then fails.
\* SocketWrapper::new that removes the path whenever it fails after the
\* runtime directory was found
SocketWrapper_new_always_removes ==
    /\ Running /\ pc = "new_socket"
    /\ \E dir_ok \in BOOLEAN, nonblocking_ok \in BOOLEAN :
         IF ~dir_ok
         THEN /\ pc' = "done" /\ result' = "err"
              /\ UNCHANGED <<sockPath, bound>>
         ELSE IF sockPath
         THEN /\ sockPath' = FALSE /\ UNCHANGED bound
              /\ pc' = "done" /\ result' = "err"
         ELSE IF nonblocking_ok
         THEN /\ sockPath' = TRUE /\ bound' = TRUE
              /\ pc' = "signals" /\ UNCHANGED result
         ELSE /\ sockPath' = FALSE /\ bound' = TRUE
              /\ pc' = "done" /\ result' = "err"
    /\ UNCHANGED <<EXIT, exitLock, handler, wlReady, sockReady, conn, intr, sigSent>>
    /\ UNCHANGED daemonVars /\ UNCHANGED envVars

SocketWrapper_new ==
    /\ Running /\ pc = "new_socket"
    /\ \E dir_ok \in BOOLEAN, nonblocking_ok \in BOOLEAN :
         IF ~dir_ok \/ sockPath
         THEN /\ pc' = "done" /\ result' = "err"
              /\ UNCHANGED <<sockPath, bound>>
         ELSE IF nonblocking_ok
         THEN /\ sockPath' = TRUE /\ bound' = TRUE
              /\ pc' = "signals" /\ UNCHANGED result
         ELSE /\ sockPath' = FALSE /\ bound' = TRUE
              /\ pc' = "done" /\ result' = "err"
    /\ UNCHANGED <<EXIT, exitLock, handler, wlReady, sockReady, conn, intr, sigSent>>
    /\ UNCHANGED daemonVars /\ UNCHANGED envVars

\* signal::signal(..) for SIGINT, SIGQUIT and SIGTERM
InstallHandlers ==
    /\ Running /\ pc = "signals"
    /\ Expect("init")
    /\ UNCHANGED <<EXIT, exitLock, handler, sockPath, bound, wlReady, sockReady,
                   conn, intr, sigSent>>
    /\ UNCHANGED envVars

\* connect_to_env, registry_queue_init, Daemon::new, PollHandler::new
Startup ==
    /\ Running /\ pc = "init"
    /\ Expect("check")
    /\ UNCHANGED <<EXIT, exitLock, handler, sockPath, bound, wlReady, sockReady,
                   conn, intr, sigSent>>
    /\ UNCHANGED envVars

\* impl Drop for SocketWrapper: the last local of main() goes
Drop_SocketWrapper ==
    /\ Running /\ pc = "exit"
    /\ sockPath' = FALSE
    /\ pc' = "done"
    /\ UNCHANGED <<result, EXIT, exitLock, handler, bound, wlReady, sockReady,
                   conn, intr, sigSent>>
    /\ UNCHANGED daemonVars /\ UNCHANGED envVars

----------------------------------------------------------------------------
(* The shutdown flag *)

\* should_daemon_exit: EXIT.read()
should_daemon_exit_lock ==
    /\ Running /\ pc = "check"
    /\ exitLock' = "read"
    /\ pc' = "check_read"
    /\ UNCHANGED <<result, EXIT, handler, sockPath, bound, wlReady, sockReady,
                   conn, intr, sigSent>>
    /\ UNCHANGED daemonVars /\ UNCHANGED envVars

\* the loop as a do-while: the flag is looked at only after the body has run
should_daemon_exit_after_body ==
    /\ Running /\ pc = "check_read"
    /\ exitLock' = "free"
    /\ IF EXIT /\ hist.entered THEN Leave("ok") /\ drawLog' = <<>>
       ELSE /\ Continue("flush")
            /\ UNCHANGED <<outs, wallpapers, nextLayer, drawLog>>
            /\ hist' = [hist EXCEPT !.entered = TRUE]
    /\ UNCHANGED <<EXIT, handler, sockPath, bound, wlReady, sockReady,
                   conn, intr, sigSent>>
    /\ UNCHANGED envVars

\* the while condition: the guard is read and released
should_daemon_exit ==
    /\ Running /\ pc = "check_read"
    /\ exitLock' = "free"
    /\ IF EXIT THEN Leave("ok") /\ drawLog' = <<>>
       ELSE /\ Continue("flush")
            /\ UNCHANGED <<outs, wallpapers, nextLayer, drawLog>>
            /\ hist' = [hist EXCEPT !.entered = TRUE]
    /\ UNCHANGED <<EXIT, handler, sockPath, bound, wlReady, sockReady,
                   conn, intr, sigSent>>
    /\ UNCHANGED envVars

\* exit_daemon that takes the write guard and releases it without storing
\* true
exit_daemon_flag_unset ==
    /\ Running /\ pc = "exit_daemon"
    /\ EXIT' = EXIT
    /\ exitLock' = "free"
    /\ conn' = [conn EXCEPT !.answer = AnswerOk]
    /\ pc' = "send"
    /\ UNCHANGED <<result, handler, sockPath, bound, wlReady, sockReady, intr, sigSent>>
    /\ UNCHANGED daemonVars /\ UNCHANGED envVars

\* exit_daemon called by the Kill arm, holding the write guard
exit_daemon ==
    /\ Running /\ pc = "exit_daemon"
    /\ EXIT' = TRUE
    /\ exitLock' = "free"
    /\ conn' = [conn EXCEPT !.answer = AnswerOk]
    /\ pc' = "send"
    /\ UNCHANGED <<result, handler, sockPath, bound, wlReady, sockReady, intr, sigSent>>
    /\ UNCHANGED daemonVars /\ UNCHANGED envVars

\* signal_handler, once installed, runs on the main thread on top of
\* whatever that was doing and calls exit_daemon.  EXIT.write() on a lock the
\* interrupted thread itself holds never returns.  A signal that arrives
\* while the thread waits in poll makes poll return EINTR.
signal_handler ==
    /\ Running /\ pc \notin {"new_socket", "signals"}
    /\ sigSent < MaxSignals
    /\ sigSent' = sigSent + 1
    /\ IF exitLock = "free"
       THEN /\ EXIT' = TRUE
            /\ intr' = (intr \/ pc = "block")
            /\ UNCHANGED handler
       ELSE /\ handler' = "blocked"
            /\ UNCHANGED <<EXIT, intr>>
    /\ UNCHANGED <<pc, result, exitLock, sockPath, bound, wlReady, sockReady, conn>>
    /\ UNCHANGED daemonVars /\ UNCHANGED envVars

----------------------------------------------------------------------------
(* main(): the loop *)

\* event_queue.flush()
Flush ==
    /\ Running /\ pc = "flush"
    /\ Expect("dispatch_pending")
    /\ UNCHANGED <<EXIT, exitLock, handler, sockPath, bound, wlReady, sockReady,
                   conn, intr, sigSent>>
    /\ UNCHANGED envVars

DispatchPcs == {"dispatch_pending", "dispatch_read"}

AfterDispatch == IF pc = "dispatch_pending" THEN "prepare_read" ELSE "accept"

\* dispatch_pending returns: the queue is drained, or the call fails
DispatchReturn ==
    /\ Running /\ pc \in DispatchPcs
    /\ \/ /\ wlQueue = 0
          /\ Continue(AfterDispatch)
          /\ UNCHANGED <<outs, wallpapers, nextLayer>>
          /\ hist' = Forget
       \/ Leave("expect")
    /\ drawLog' = <<>>
    /\ UNCHANGED <<EXIT, exitLock, handler, sockPath, bound, wlReady, sockReady,
                   conn, intr, sigSent>>
    /\ UNCHANGED envVars

\* event_queue.prepare_read()
PrepareRead ==
    /\ Running /\ pc = "prepare_read"
    /\ Expect("block")
    /\ UNCHANGED <<EXIT, exitLock, handler, sockPath, bound, wlReady, sockReady,
                   conn, intr, sigSent>>
    /\ UNCHANGED envVars

\* PollHandler::block: poll(fds, -1) returns with revents set, returns EINTR
\* with no revents, or fails
PollHandler_block ==
    /\ Running /\ pc = "block"
    /\ \/ /\ wlSocket > 0 \/ connPending # <<>>
          /\ wlReady' = (wlSocket > 0)
          /\ sockReady' = (connPending # <<>>)
          /\ Continue("read_events")
          /\ UNCHANGED <<outs, wallpapers, nextLayer, hist>>
       \/ /\ intr
          /\ wlReady' = FALSE
          /\ sockReady' = FALSE
          /\ Continue("read_events")
          /\ UNCHANGED <<outs, wallpapers, nextLayer, hist>>
       \/ /\ Leave("expect")
          /\ UNCHANGED <<wlReady, sockReady>>
    /\ intr' = FALSE
    /\ UNCHANGED <<EXIT, exitLock, handler, sockPath, bound, conn, sigSent, drawLog>>
    /\ UNCHANGED envVars

\* if has_event(WAYLAND_FD): read_guard.read()
ReadEvents ==
    /\ Running /\ pc = "read_events"
    /\ IF wlReady
       THEN \/ /\ wlQueue' = wlQueue + wlSocket
               /\ wlSocket' = 0
               /\ Continue("dispatch_read")
               /\ UNCHANGED <<outs, wallpapers, nextLayer, hist>>
            \/ /\ Leave("expect")
               /\ UNCHANGED <<wlQueue, wlSocket>>
       ELSE /\ Continue("accept")
            /\ UNCHANGED <<wlQueue, wlSocket, outs, wallpapers, nextLayer, hist>>
    /\ UNCHANGED <<EXIT, exitLock, handler, sockPath, bound, wlReady, sockReady,
                   conn, intr, sigSent, connPending, evSent, connSent, drawLog>>

\* accept whose every failure is taken for would-block
Accept_retry_all ==
    /\ Running /\ pc = "accept"
    /\ IF sockReady
       THEN \/ /\ connPending # <<>>
               /\ connPending' = Tail(connPending)
               /\ conn' = [NoConn EXCEPT !.id = Head(connPending), !.open = TRUE]
               /\ Continue("recv")
               /\ UNCHANGED <<outs, wallpapers, nextLayer, hist>>
            \/ /\ Continue("check")
               /\ UNCHANGED <<connPending, conn, outs, wallpapers, nextLayer, hist>>
       ELSE /\ Continue("check")
            /\ UNCHANGED <<connPending, conn, outs, wallpapers, nextLayer, hist>>
    /\ UNCHANGED <<EXIT, exitLock, handler, sockPath, bound, wlReady, sockReady,
                   intr, sigSent, wlSocket, wlQueue, evSent, connSent, drawLog>>

\* accept that takes the connection that arrived last
Accept_newest_first ==
    /\ Running /\ pc = "accept"
    /\ IF sockReady
       THEN \/ /\ connPending # <<>>
               /\ connPending' = SubSeq(connPending, 1, Len(connPending) - 1)
               /\ conn' = [NoConn EXCEPT !.id = connPending[Len(connPending)],
                                         !.open = TRUE]
               /\ Continue("recv")
               /\ UNCHANGED <<outs, wallpapers, nextLayer, hist>>
            \/ /\ connPending = <<>>
               /\ Continue("check")
               /\ UNCHANGED <<connPending, conn, outs, wallpapers, nextLayer, hist>>
            \/ /\ Leave("err")
               /\ UNCHANGED <<connPending, conn>>
       ELSE /\ Continue("check")
            /\ UNCHANGED <<connPending, conn, outs, wallpapers, nextLayer, hist>>
    /\ UNCHANGED <<EXIT, exitLock, handler, sockPath, bound, wlReady, sockReady,
                   intr, sigSent, wlSocket, wlQueue, evSent, connSent, drawLog>>

\* if has_event(SOCKET_FD): listener.0.accept()
Accept ==
    /\ Running /\ pc = "accept"
    /\ IF sockReady
       THEN \/ /\ connPending # <<>>
               /\ connPending' = Tail(connPending)
               /\ conn' = [NoConn EXCEPT !.id = Head(connPending), !.open = TRUE]
               /\ Continue("recv")
               /\ UNCHANGED <<outs, wallpapers, nextLayer, hist>>
            \/ /\ connPending = <<>>   \* ErrorKind::WouldBlock
               /\ Continue("check")
               /\ UNCHANGED <<connPending, conn, outs, wallpapers, nextLayer, hist>>
            \/ /\ Leave("err")
               /\ UNCHANGED <<connPending, conn>>
       ELSE /\ Continue("check")
            /\ UNCHANGED <<connPending, conn, outs, wallpapers, nextLayer, hist>>
    /\ UNCHANGED <<EXIT, exitLock, handler, sockPath, bound, wlReady, sockReady,
                   intr, sigSent, wlSocket, wlQueue, evSent, connSent, drawLog>>

\* what is left of a connection once its stream is dropped
Dropped(c) == [c EXCEPT !.open = FALSE, !.request = NoReq, !.answer = NoAnswer]

\* how a callback or a request arm that worked on the wallpapers ends: it
\* returns to `next`, the process faults, or an unwrap in it panics
Outcome(r, next, newOuts, newLayer, h) ==
    /\ drawLog' = r.log
    /\ CASE r.st = "ok" ->
              /\ Continue(next)
              /\ wallpapers' = r.ws /\ outs' = newOuts /\ nextLayer' = newLayer
              /\ hist' = h
         [] r.st = "segv" -> Killed
         [] OTHER -> Leave(r.st)

\* recv_socket_msg up to the answer: Request::receive and the match.  The
\* Kill arm goes on in exit_daemon.
recv_socket_msg ==
    /\ Running /\ pc = "recv"
    /\ \E request \in Requests \cup {Unreadable}, env \in DrawEnvs :
         IF request.kind = "Kill"
         THEN /\ exitLock' = "write"
              /\ conn' = [conn EXCEPT !.reads = @ + 1, !.request = request]
              /\ Continue("exit_daemon")
              /\ UNCHANGED daemonVars
         ELSE LET a == answer_request(outs, wallpapers, request, env)
                  c == [conn EXCEPT !.reads = @ + 1, !.request = request]
              IN  /\ Outcome(a.res, "send", outs, nextLayer, hist)
                  /\ conn' = IF a.res.st = "ok" THEN [c EXCEPT !.answer = a.answer]
                             ELSE [c EXCEPT !.open = FALSE]
                  /\ UNCHANGED exitLock
    /\ UNCHANGED <<EXIT, handler, sockPath, bound, wlReady, sockReady, intr, sigSent>>
    /\ UNCHANGED envVars

\* the answer sent, accept is tried again in the same iteration
SendAnswer_accept_more ==
    /\ Running /\ pc = "send"
    /\ conn' = [Dropped(conn) EXCEPT !.sends = @ + 1]
    /\ pc' = "accept"
    /\ drawLog' = <<>>
    /\ UNCHANGED <<result, EXIT, exitLock, handler, sockPath, bound, wlReady,
                   sockReady, intr, sigSent, outs, wallpapers, nextLayer, hist>>
    /\ UNCHANGED envVars

\* answer.send(&stream): whether it succeeds or fails (the error is logged)
\* makes no difference to the daemon; the stream is dropped when
\* recv_socket_msg returns
SendAnswer ==
    /\ Running /\ pc = "send"
    /\ conn' = [Dropped(conn) EXCEPT !.sends = @ + 1]
    /\ pc' = "check"
    /\ drawLog' = <<>>
    /\ UNCHANGED <<result, EXIT, exitLock, handler, sockPath, bound, wlReady,
                   sockReady, intr, sigSent, outs, wallpapers, nextLayer, hist>>
    /\ UNCHANGED envVars

----------------------------------------------------------------------------
(* dispatch_pending: one queued protocol event handed to its callback *)

Dispatching == Running /\ pc \in DispatchPcs /\ wlQueue > 0

\* one event leaves the queue; r is what its callback e did
Dispatched(e, r, newOuts, newLayer) ==
    /\ Outcome(r, pc, newOuts, newLayer, Shift(e))
    /\ wlQueue' = wlQueue - 1
    /\ UNCHANGED <<EXIT, exitLock, handler, sockPath, bound, wlReady, sockReady,
                   conn, intr, sigSent, wlSocket, connPending, evSent, connSent>>

LiveIds == {outs[i].id : i \in 1..Len(outs)}

InfoOf(id) == outs[CHOOSE i \in 1..Len(outs) : outs[i].id = id]

Layers == 1..(nextLayer - 1)

TagByOutput(id) ==
    IF FirstByOutput(wallpapers, id) = 0 THEN NoTag
    ELSE wallpapers[FirstByOutput(wallpapers, id)].img

TagByLayer(layer) ==
    IF FirstByLayer(wallpapers, layer) = 0 THEN NoTag
    ELSE wallpapers[FirstByLayer(wallpapers, layer)].img

OutputAnnounced ==
    /\ Dispatching
    /\ \E id \in OutputIds \ LiveIds : \E info \in OutputInfos(id) :
         Dispatched(Ev("new_output", id, <<>>, NoTag),
                    new_output(wallpapers, info, nextLayer),
                    Append(outs, info), nextLayer + 1)

OutputUpdated ==
    /\ Dispatching
    /\ \E id \in LiveIds : \E info \in OutputInfos(id) :
         Dispatched(Ev("update_output", id,
                       IF info.logical_size = NoSize THEN <<>>
                       ELSE <<info.logical_size[1], info.logical_size[2],
                              info.scale_factor>>,
                       TagByOutput(id)),
                    update_output(wallpapers, info),
                    [i \in 1..Len(outs) |-> IF outs[i].id = id THEN info ELSE outs[i]],
                    nextLayer)

OutputWithdrawn ==
    /\ Dispatching
    /\ \E id \in LiveIds :
         LET other(info) == info.id # id IN
         Dispatched(Ev("output_destroyed", id, <<>>, TagByOutput(id)),
                    output_destroyed(wallpapers, InfoOf(id)),
                    SelectSeq(outs, other), nextLayer)

SurfaceClosed ==
    /\ Dispatching
    /\ \E layer \in Layers :
         Dispatched(Ev("closed", layer, <<>>, TagByLayer(layer)),
                    closed(wallpapers, layer), outs, nextLayer)

Configure ==
    /\ Dispatching
    /\ \E layer \in Layers, new_size \in ConfigureSizes, env \in DrawEnvs :
         Dispatched(Ev("configure", layer, new_size, TagByLayer(layer)),
                    configure(wallpapers, layer, new_size, env), outs, nextLayer)

ScaleFactorChanged ==
    /\ Dispatching
    /\ \E layer \in Layers, new_factor \in Scales, env \in DrawEnvs :
         Dispatched(Ev("scale_factor_changed", layer, <<new_factor>>, TagByLayer(layer)),
                    scale_factor_changed(wallpapers, layer, new_factor, env),
                    outs, nextLayer)

FrameReady ==
    /\ Dispatching
    /\ \E layer \in Layers, env \in DrawEnvs :
         Dispatched(Ev("frame", layer, <<>>, TagByLayer(layer)),
                    frame(wallpapers, layer, env), outs, nextLayer)

----------------------------------------------------------------------------
(* The environment *)

\* The daemon observes the descriptors in poll, read and accept only, so an
\* arrival is taken at the observation it precedes.
CompositorSends ==
    /\ Running /\ (pc = "block" \/ (pc = "read_events" /\ wlReady))
    /\ evSent < MaxEvents
    /\ evSent' = evSent + 1
    /\ wlSocket' = wlSocket + 1
    /\ UNCHANGED <<wlQueue, connPending, connSent>>
    /\ UNCHANGED <<pc, result, EXIT, exitLock, handler, sockPath, bound, wlReady,
                   sockReady, conn, intr, sigSent>>
    /\ UNCHANGED daemonVars

ClientConnects ==
    /\ Running /\ (pc = "block" \/ (pc = "accept" /\ sockReady))
    /\ connSent < MaxConns
    /\ connSent' = connSent + 1
    /\ connPending' = Append(connPending, connSent + 1)
    /\ UNCHANGED <<wlQueue, wlSocket, evSent>>
    /\ UNCHANGED <<pc, result, EXIT, exitLock, handler, sockPath, bound, wlReady,
                   sockReady, conn, intr, sigSent>>
    /\ UNCHANGED daemonVars

\* a pending connection goes away before it is accepted
ClientGivesUp ==
    /\ Running /\ pc = "accept" /\ sockReady
    /\ \E k \in 1..Len(connPending) :
         connPending' = [j \in 1..(Len(connPending) - 1) |->
                            IF j < k THEN connPending[j] ELSE connPending[j + 1]]
    /\ UNCHANGED <<wlQueue, wlSocket, evSent, connSent>>
    /\ UNCHANGED <<pc, result, EXIT, exitLock, handler, sockPath, bound, wlReady,
                   sockReady, conn, intr, sigSent>>
    /\ UNCHANGED daemonVars

----------------------------------------------------------------------------
(* Specification *)

MainThread ==
    \/ SocketWrapper_new
    \/ InstallHandlers
    \/ Startup
    \/ should_daemon_exit_lock
    \/ should_daemon_exit
    \/ Flush
    \/ DispatchReturn
    \/ OutputAnnounced
    \/ OutputUpdated
    \/ OutputWithdrawn
    \/ SurfaceClosed
    \/ Configure
    \/ ScaleFactorChanged
    \/ FrameReady
    \/ PrepareRead
    \/ PollHandler_block
    \/ ReadEvents
    \/ Accept
    \/ recv_socket_msg
    \/ exit_daemon
    \/ SendAnswer
    \/ Drop_SocketWrapper

Next ==
    \/ MainThread
    \/ signal_handler
    \/ CompositorSends
    \/ ClientConnects
    \/ ClientGivesUp

Spec == Init /\ [][Next]_vars

\* A step in which nothing fails: no call returns an error, nothing faults
Faultless == result' \in {result, "ok"}

\* The main thread keeps running while it has a step to take; nothing
\* obliges the compositor, the clients or the operating system to act.
FairSpec == Spec /\ WF_vars(MainThread /\ Faultless)

----------------------------------------------------------------------------
(* Properties *)

Surfaces == 1..Len(wallpapers)

\* C1: in every reachable state the pixel buffer of every Output Surface is
\* width * height * scale * scale * 3 bytes long.
C1_BufferLengthIsScaledArea ==
    \A i \in Surfaces :
        BufLen(wallpapers[i].buf)
          = wallpapers[i].width * wallpapers[i].height
              * wallpapers[i].scale_factor * wallpapers[i].scale_factor * 3

\* C2: every draw hands the rendering pipeline a buffer of exactly
\* W * H * 3 bytes, W and H being the dimensions passed in the same call.
C2_DrawGetsWholeTexture ==
    \A k \in 1..Len(drawLog) :
        drawLog[k].len = drawLog[k].width * drawLog[k].height * 3

GraphicsFailed == {"make_current", "swap_buffers"}

\* the pair is applied to the surface w: its filter resolves to w's output
ImgTargets(pair, w) ==
    Contains(find_wallpapers_id_by_names(outs, pair.outputs), w.output_id)

\* the request has a pair for the surface w, and the payload of every such
\* pair differs in length from w's buffer
OnlyMismatched(request, w) ==
    /\ \E k \in 1..Len(request.imgs) : ImgTargets(request.imgs[k], w)
    /\ \A k \in 1..Len(request.imgs) :
          ImgTargets(request.imgs[k], w)
             => BufLen(request.imgs[k].img) # BufLen(w.buf)

\* C3: a set-image whose payload length differs from the target surface's
\* buffer length is rejected: the surface is still there afterwards, its
\* buffer and content tag exactly as they were.
C3_MismatchedImageRejected ==
    [][ (pc = "recv" /\ conn'.request.kind = "Img")
          => \A i \in Surfaces :
                OnlyMismatched(conn'.request, wallpapers[i])
                   => /\ i \in 1..Len(wallpapers')
                      /\ wallpapers'[i] = wallpapers[i] ]_vars

\* C4: no control-channel exchange takes down the daemon: whatever the
\* request, as long as the graphics calls succeed, handling it returns and
\* the main loop goes on to its next iteration.
C4_ExchangeNeverEndsDaemon ==
    [][ (pc \in {"recv", "exit_daemon", "send"} /\ pc' # pc)
          => \/ pc' \in {"exit_daemon", "send", "check"}
             \/ result' \in GraphicsFailed ]_vars

KillAnswered == pc = "send" /\ conn.request.kind = "Kill"

FlagAtLoopTop == EXIT /\ pc \in {"check", "check_read"}

\* C5: processing a terminate command sets the shutdown flag and answers
\* success; once it is answered the main loop leaves with success at its
\* next check of the flag, and in between no connection is accepted, no
\* protocol event is dispatched and no draw is issued.
C5_TerminateEndsLoop ==
    [][ /\ (pc = "exit_daemon" /\ pc' = "send")
             => (EXIT' /\ conn'.answer = AnswerOk)
        /\ KillAnswered
             => /\ EXIT /\ conn.answer = AnswerOk
                /\ pc' # pc => (pc' = "check" /\ conn'.sends = 1)
        /\ (KillAnswered \/ FlagAtLoopTop)
             => /\ pc' \in {"send", "check", "check_read", "exit"}
                /\ pc' = "exit" => result' = "ok"
                /\ conn'.id = conn.id /\ Len(connPending') >= Len(connPending)
                /\ wlQueue' = wlQueue /\ wlSocket' >= wlSocket
                /\ drawLog' = <<>> ]_vars

\* a terminate command was answered and the loop left with success, a
\* second connection still waiting
C5_Witness ==
    /\ pc = "exit" /\ result = "ok"
    /\ sigSent = 0
    /\ conn.sends = 1
    /\ connPending # <<>>

LoopPcs == {"check", "check_read", "flush", "dispatch_pending", "prepare_read",
            "block", "read_events", "dispatch_read", "accept", "recv",
            "exit_daemon", "send"}

\* C6: once a signal has been delivered during the main loop and its handler
\* has set the flag, the loop eventually ends, even if no protocol event and
\* no connection arrives any more.
C6_SignalEndsLoop ==
    (sigSent > 0 /\ EXIT /\ handler = "idle" /\ pc \in LoopPcs)
        ~> (pc \in {"exit", "done", "crashed"})

\* C7: the signal handler never blocks and the flag is set when it returns,
\* also when the signal interrupts the main thread reading or writing the
\* flag.
C7_HandlerSetsFlagWithoutBlocking ==
    [][ sigSent' > sigSent => (EXIT' /\ handler' = "idle") ]_vars

\* C8: once the socket is bound, there is no terminated state in which the
\* bound path still exists.
C8_SocketPathRemovedAtExit ==
    (bound /\ pc \in {"done", "crashed"}) => ~sockPath

\* C9: every accepted connection has exactly one request read and exactly
\* one answer written when it is closed (unless a graphics call failed), the
\* answer is written after the surfaces were changed, and no connection is
\* kept across loop iterations.
C9_OneRequestOneAnswer ==
    [][ /\ (conn.open /\ ~conn'.open)
             => \/ conn'.reads = 1 /\ conn'.sends = 1
                \/ result' \in GraphicsFailed
        /\ conn'.sends > conn.sends
             => (conn.reads = 1 /\ conn'.sends = 1 /\ wallpapers' = wallpapers)
        /\ conn.open => pc \in {"recv", "exit_daemon", "send"} ]_vars

\* C10: when reading the request fails the client is answered with an error
\* carrying the failure description, and the surface set, every surface,
\* the output state and the shutdown flag are unchanged and nothing is drawn.
C10_ReadFailureAnswered ==
    [][ (pc = "recv" /\ conn'.request = Unreadable)
          => /\ pc' = "send"
             /\ conn'.answer = Answer("Err", "receive", <<>>)
             /\ wallpapers' = wallpapers /\ outs' = outs
             /\ EXIT' = EXIT
             /\ drawLog' = <<>> ]_vars

\* the error answer to an unreadable request is about to be sent, surfaces
\* being present
C10_Witness ==
    /\ pc = "send" /\ conn.request = Unreadable
    /\ conn.answer.kind = "Err"
    /\ wallpapers # <<>>

AllPixels(b, color) ==
    /\ b.tail = <<>>
    /\ \A k \in 1..Len(b.px) : b.px[k].px = color

\* the identities a filter stands for: every live output for the empty
\* filter, the live outputs named in it otherwise
Named(names) ==
    {outs[i].id : i \in {j \in 1..Len(outs) :
                            names = <<>> \/ Contains(names, outs[j].name)}}

\* C11: resolving a filter against the live outputs returns, each once, the
\* identities of all of them for the empty filter (unnamed outputs included)
\* and of those whose name is in the list otherwise.
C11_FilterResolvesToLiveOutputs ==
    \A names \in Filters :
        LET ids == find_wallpapers_id_by_names(outs, names)
        IN  /\ {ids[k] : k \in 1..Len(ids)} = Named(names)
            /\ Len(ids) = Cardinality(Named(names))

\* C12: once a clear(C) with an empty filter is about to be answered, the
\* buffer of every live Output Surface consists of the triple C only, each
\* of them was drawn, and the query-state answer computed on that state
\* reports solid color C for every output.
C12_ClearAllPaintsEverySurface ==
    [][ (pc = "recv" /\ pc' = "send"
           /\ conn'.request.kind = "Clear" /\ conn'.request.outputs = <<>>)
          => LET C    == conn'.request.color
                 info == wallpapers_info(outs', wallpapers')
             IN  /\ \A i \in 1..Len(wallpapers') :
                       /\ AllPixels(wallpapers'[i].buf, C)
                       /\ \E k \in 1..Len(drawLog') :
                             drawLog'[k].layer = wallpapers'[i].layer_surface
                 /\ Len(info) = Len(wallpapers')
                 /\ \A k \in 1..Len(info) : info[k].img = ColorTag(C) ]_vars

\* the entry reports the surface w: its content tag, and the name, logical
\* size and scale factor the compositor gave for its output
Reports(entry, w) ==
    LET o == InfoOf(w.output_id)
    IN  /\ entry.img = w.img
        /\ o.name # NoName => entry.name = o.name
        /\ o.logical_size # NoSize => entry.dim = o.logical_size
        /\ entry.scale_factor = o.scale_factor

\* C13: the query-state answer has exactly one entry per live Output
\* Surface, each with that surface's content tag and its output's name,
\* logical size and scale factor; handling the request changes no surface,
\* no output, not the shutdown flag, and draws nothing.
C13_QueryReportsEverySurface ==
    [][ (pc = "recv" /\ conn'.request.kind = "Query")
          => LET info == conn'.answer.info
             IN  /\ pc' = "send" /\ conn'.answer.kind = "Info"
                 /\ Len(info) = Len(wallpapers)
                 /\ \E f \in [Surfaces -> 1..Len(info)] :
                       /\ \A i, j \in Surfaces : f[i] = f[j] => i = j
                       /\ \A i \in Surfaces : Reports(info[f[i]], wallpapers[i])
                 /\ wallpapers' = wallpapers /\ outs' = outs
                 /\ EXIT' = EXIT
                 /\ drawLog' = <<>> ]_vars

\* a query is about to be answered with two entries of different content
C13_Witness ==
    /\ pc = "send" /\ conn.request.kind = "Query"
    /\ Len(conn.answer.info) = 2
    /\ conn.answer.info[1].img # conn.answer.info[2].img

\* sizes and scale factors a surface is resized to
ResizeArgs ==
    {<<d[1], d[2], s>> : d \in {<<2, 1>>, <<1, 2>>, <<DefaultDim, DefaultDim>>},
                         s \in Scales}

\* C17: for every surface and all valid (width, height, scale), resize
\* followed by clear(C) leaves a buffer of width*height*scale*scale*3 bytes
\* whose every 3-byte group is C, and the content tag solid color C.
C17_ResizeThenClear ==
    \A i \in Surfaces : \A a \in ResizeArgs : \A C \in Colors :
        LET w == clear(resize(wallpapers[i], a[1], a[2], a[3]), C)
        IN  /\ BufLen(w.buf) = a[1] * a[2] * a[3] * a[3] * 3
            /\ AllPixels(w.buf, C)
            /\ w.img = ColorTag(C)

\* the filter is not empty and none of its names is the name of a live output
NamesNoOutput(names) ==
    /\ names # <<>>
    /\ \A k \in 1..Len(names) : \A i \in 1..Len(outs) : outs[i].name # names[k]

\* the request is a clear, or a set-image with at least one pair, and every
\* filter in it names only outputs that do not exist
TargetsNothing(request) ==
    \/ request.kind = "Clear" /\ NamesNoOutput(request.outputs)
    \/ /\ request.kind = "Img" /\ request.imgs # <<>>
       /\ \A k \in 1..Len(request.imgs) : NamesNoOutput(request.imgs[k].outputs)

\* C20: a clear or set-image request whose filter names only outputs that do
\* not exist is answered with success, changes no Output Surface and draws
\* nothing.
C20_UnknownOutputsAreNoOp ==
    [][ (pc = "recv" /\ TargetsNothing(conn'.request))
          => /\ pc' = "send"
             /\ conn'.answer = AnswerOk
             /\ wallpapers' = wallpapers
             /\ drawLog' = <<>> ]_vars

\* a set-image for an unknown output, its payload of a length no surface
\* has, is about to be answered with success while a surface is live
C20_Witness ==
    /\ pc = "send" /\ conn.request.kind = "Img"
    /\ conn.request.imgs[1].outputs = <<"Z">>
    /\ conn.request.imgs[1].img = MkImg(2, 1)
    /\ conn.answer = AnswerOk
    /\ wallpapers # <<>>

\* the last two callbacks were output_destroyed and new_output of one
\* output identity
Recreated ==
    /\ hist.prev.ev = "output_destroyed"
    /\ hist.last.ev = "new_output"
    /\ hist.last.key = hist.prev.key

\* C14: when output-withdrawn and then output-announced have been handled
\* for one output identity, there is exactly one Output Surface of that
\* identity, its content tag solid black and its buffer all zero.
C14_RecreatedSurfaceIsFresh ==
    Recreated
      => LET S == {i \in Surfaces : wallpapers[i].output_id = hist.last.key}
         IN  /\ Cardinality(S) = 1
             /\ \A i \in S : /\ wallpapers[i].img = ColorTag(<<0, 0, 0>>)
                             /\ AllPixels(wallpapers[i].buf, <<0, 0, 0>>)

\* an output whose surface showed an image was withdrawn and announced again
C14_Witness ==
    /\ Recreated
    /\ hist.prev.img.kind = "Img"
    /\ \E i \in Surfaces : wallpapers[i].output_id = hist.last.key

\* C15: as long as the loop body was never entered and the flag is set, the
\* main thread only checks the flag and leaves the loop with success:
\* nothing is drawn, accepted or dispatched, and poll is not entered.
C15_FlagSetBeforeFirstIteration ==
    [][ (~hist.entered /\ EXIT /\ pc \in {"check", "check_read"})
          => /\ pc' \in {"check", "check_read", "exit"}
             /\ pc' = "exit" => result' = "ok"
             /\ ~hist'.entered
             /\ drawLog = <<>> /\ drawLog' = <<>>
             /\ conn = NoConn /\ conn' = NoConn
             /\ evSent' = 0 /\ wlQueue' = 0 /\ connSent' = 0 ]_vars

\* the loop was left with success without its body ever being entered
C15_Witness ==
    /\ pc = "exit" /\ result = "ok"
    /\ EXIT /\ ~hist.entered

\* C16: when a configure callback has returned, the surface of its layer is
\* 256x256 if the acknowledged size had a zero dimension and of the
\* acknowledged size otherwise, and it was drawn exactly once.
C16_ConfigureFallsBackToDefault ==
    (hist.last.ev = "configure" /\ FirstByLayer(wallpapers, hist.last.key) # 0)
      => LET w    == wallpapers[FirstByLayer(wallpapers, hist.last.key)]
             size == hist.last.size
         IN  /\ (size[1] = 0 \/ size[2] = 0) => (w.width = 256 /\ w.height = 256)
             /\ (size[1] > 0 /\ size[2] > 0)
                   => (w.width = size[1] /\ w.height = size[2])
             /\ w.width > 0 /\ w.height > 0
             /\ drawLog = <<DrawCall(w)>>

\* a configure of size (0, 0) was followed by a configure of a valid size for
\* the same surface
C16_Witness ==
    /\ hist.prev.ev = "configure" /\ hist.prev.size = <<0, 0>>
    /\ hist.last.ev = "configure" /\ hist.last.size = <<1, 2>>
    /\ hist.last.key = hist.prev.key
    /\ FirstByLayer(wallpapers, hist.last.key) # 0
    /\ Len(drawLog) = 1

\* C18: when the control socket was reported ready, accept either yields a
\* connection, or finds none (would-block), and then no request is
\* processed, nothing changes and the loop goes on to its next iteration,
\* or fails otherwise, and then main() is left with an error; a pending
\* connection is never passed over silently.
C18_WouldBlockIsNotFatal ==
    [][ (pc = "accept" /\ sockReady /\ pc' # pc)
          => \/ /\ pc' = "recv"
                /\ connPending # <<>> /\ conn'.open /\ conn'.reads = 0
             \/ /\ pc' = "check"
                /\ connPending = <<>>
                /\ UNCHANGED <<conn, connPending, outs, wallpapers, EXIT,
                               drawLog, result>>
             \/ /\ pc' = "exit"
                /\ result' = "err" ]_vars

\* the socket was ready, the only client gave up, accept found nothing and
\* the loop is at its next iteration with its surfaces
C18_Witness ==
    /\ pc = "check" /\ result = "none"
    /\ sockReady
    /\ connSent > 0 /\ connPending = <<>> /\ conn = NoConn
    /\ wallpapers # <<>>

\* C19: a connection is accepted only when the one before it is closed, and
\* it is the oldest one pending; while a request is handled no protocol
\* event is dispatched and no other connection accepted; and when a request
\* that changed surfaces is about to be answered, each changed surface has
\* been drawn in its final state.
C19_RequestsOneAtATimeInOrder ==
    [][ /\ conn'.id # conn.id
             => /\ pc = "accept" /\ ~conn.open
                /\ conn'.id > conn.id
                /\ \A k \in 1..Len(connPending) : conn'.id <= connPending[k]
        /\ conn.open
             => /\ conn'.id = conn.id
                /\ wlQueue' = wlQueue /\ wlSocket' = wlSocket
                /\ pc' \in {"recv", "exit_daemon", "send", "check", "exit", "crashed"}
        /\ (pc = "recv" /\ pc' = "send")
             => \A i \in 1..Len(wallpapers') :
                   wallpapers'[i] # wallpapers[i]
                      => \E k \in 1..Len(drawLog') :
                            drawLog'[k] = DrawCall(wallpapers'[i]) ]_vars

\* the first connection's request changed a surface, which was drawn, and
\* is about to be answered while a later connection waits
C19_Witness ==
    /\ pc = "send" /\ conn.id = 1
    /\ conn.request.kind \in {"Clear", "Img"}
    /\ drawLog # <<>>
    /\ connPending = <<2>>

\* C21: an animation request is answered with the error "Not implemented"
\* and an initialize probe with success; handling either changes no
\* surface, no output and not the shutdown flag, and draws nothing.
C21_AnimationAndInitChangeNothing ==
    [][ (pc = "recv" /\ conn'.request.kind \in {"Animation", "Init"})
          => /\ pc' = "send"
             /\ conn'.request.kind = "Animation"
                   => conn'.answer = Answer("Err", "Not implemented", <<>>)
             /\ conn'.request.kind = "Init" => conn'.answer = AnswerOk
             /\ wallpapers' = wallpapers /\ outs' = outs
             /\ EXIT' = EXIT
             /\ drawLog' = <<>> ]_vars

\* an animation request is about to be answered "Not implemented" while a
\* surface is live
C21_Witness ==
    /\ pc = "send" /\ conn.request.kind = "Animation"
    /\ conn.answer.msg = "Not implemented"
    /\ wallpapers # <<>>

\* where the loop of main() goes from the step p when nothing fails
NextPcs(p) ==
    CASE p = "check"            -> {"check_read"}
      [] p = "check_read"       -> IF EXIT THEN {"exit"} ELSE {"flush"}
      [] p = "flush"            -> {"dispatch_pending"}
      [] p = "dispatch_pending" -> {"prepare_read"}
      [] p = "prepare_read"     -> {"block"}
      [] p = "block"            -> {"read_events"}
      [] p = "read_events"      -> IF wlReady THEN {"dispatch_read"} ELSE {"accept"}
      [] p = "dispatch_read"    -> {"accept"}
      [] p = "accept"           -> IF sockReady THEN {"recv", "check"} ELSE {"check"}
      [] p = "recv"             -> {"send", "exit_daemon"}
      [] p = "exit_daemon"      -> {"send"}
      [] p = "send"             -> {"check"}

\* C22: an iteration goes through flush, dispatch, prepare read, block,
\* read and dispatch (if the protocol descriptor is ready) and accept (if
\* the control descriptor is ready) in this order; every protocol event read
\* is dispatched before accept, a connection is accepted at accept only and
\* the iteration ends after its request, and the flag is read at the top of
\* the iteration only.
C22_IterationOrder ==
    [][ /\ (pc \in LoopPcs /\ pc' # pc)
             => pc' \in NextPcs(pc) \cup {"exit", "crashed"}
        /\ exitLock' = "read" => pc' = "check_read"
        /\ (pc # "exit" /\ pc' = "exit" /\ result' = "ok")
             => (pc = "check_read" /\ EXIT)
        /\ wlQueue' < wlQueue => pc \in DispatchPcs
        /\ pc' \in {"accept", "recv"} => (wlQueue' = 0 /\ (wlReady => wlSocket' = 0))
        /\ conn'.id # conn.id => (pc = "accept" /\ pc' = "recv")
        /\ Len(connPending') < Len(connPending) => pc = "accept" ]_vars

\* an iteration that handled one request is over while a second connection,
\* pending since before the accept, still waits
C22_Witness ==
    /\ pc = "check" /\ ~EXIT
    /\ conn.id = 1 /\ conn.sends = 1
    /\ connPending = <<2>>
    /\ wallpapers # <<>>

\* in this step dispatch_pending called the callback ev and it returned
Handled(ev) ==
    /\ pc \in DispatchPcs /\ pc' = pc
    /\ wlQueue' = wlQueue - 1
    /\ hist'.last.ev = ev

\* C23: when update_output has returned, only the first surface of the
\* updated output can differ and nothing was drawn; for a size with a zero
\* dimension no surface differs; for a size and scale equal to the surface's
\* own the surface is as it was; otherwise the surface has the new width,
\* height and scale.
C23_UpdateResizesOnlyOnChange ==
    [][ Handled("update_output")
          => LET e == hist'.last
                 i == FirstByOutput(wallpapers, e.key)
             IN  /\ Len(wallpapers') = Len(wallpapers)
                 /\ \A j \in Surfaces : j # i => wallpapers'[j] = wallpapers[j]
                 /\ drawLog' = <<>>
                 /\ (e.size # <<>> /\ (e.size[1] = 0 \/ e.size[2] = 0))
                       => wallpapers' = wallpapers
                 /\ (i # 0 /\ e.size # <<>> /\ e.size[1] > 0 /\ e.size[2] > 0)
                       => IF e.size = <<wallpapers[i].width, wallpapers[i].height,
                                        wallpapers[i].scale_factor>>
                          THEN wallpapers'[i] = wallpapers[i]
                          ELSE /\ wallpapers'[i].width = e.size[1]
                               /\ wallpapers'[i].height = e.size[2]
                               /\ wallpapers'[i].scale_factor = e.size[3]
                               /\ wallpapers'[i].output_id = e.key ]_vars

\* an output was updated with the size and scale its surface already had,
\* and the surface still shows its image
C23_Witness ==
    /\ hist.last.ev = "update_output"
    /\ hist.last.img.kind = "Img"
    /\ \E i \in Surfaces :
          /\ wallpapers[i].output_id = hist.last.key
          /\ hist.last.size = <<wallpapers[i].width, wallpapers[i].height,
                                wallpapers[i].scale_factor>>
          /\ wallpapers[i].img = hist.last.img

\* the last callback was a configure or scale_factor_changed for the layer
\* surface of wallpaper i, which it therefore resized
JustResized(i) ==
    /\ hist.last.ev \in {"configure", "scale_factor_changed"}
    /\ FirstByLayer(wallpapers, hist.last.key) = i

\* what query-state reports of the surfaces ws
Tags(ws) ==
    LET info == wallpapers_info(outs, ws)
    IN  {info[k].img : k \in 1..Len(info)}

\* C24: resize(width, height, scale) of any surface leaves it with these
\* three values, an all-zero buffer and the content tag solid black; a
\* surface just resized by a callback is in this state, and query-state
\* reports no other tag for it.
C24_ResizeResetsContent ==
    \A i \in Surfaces :
        /\ \A a \in ResizeArgs :
              LET w == resize(wallpapers[i], a[1], a[2], a[3])
              IN  /\ <<w.width, w.height, w.scale_factor>> = a
                  /\ AllPixels(w.buf, <<0, 0, 0>>)
                  /\ w.img = ColorTag(<<0, 0, 0>>)
        /\ JustResized(i)
              => /\ AllPixels(wallpapers[i].buf, <<0, 0, 0>>)
                 /\ wallpapers[i].img = ColorTag(<<0, 0, 0>>)
                 /\ Tags(wallpapers) \subseteq
                       {ColorTag(<<0, 0, 0>>)}
                          \cup {wallpapers[j].img : j \in Surfaces \ {i}}

\* a surface that showed an image has just been resized by a configure
\* callback
C24_Witness ==
    /\ hist.last.ev = "configure"
    /\ hist.last.img.kind = "Img"
    /\ \E i \in Surfaces : JustResized(i) /\ wallpapers[i].img.kind = "Color"

\* C25: when scale_factor_changed has returned for the layer surface of a
\* wallpaper, that wallpaper was drawn once; for a factor equal to its scale
\* its buffer and content tag are as they were; for another factor its scale
\* is the new factor and its width and height are as they were.
C25_ScaleChangeResizesOnlyIfNeeded ==
    [][ Handled("scale_factor_changed")
          => LET e == hist'.last
                 i == FirstByLayer(wallpapers, e.key)
             IN  i # 0
                   => /\ Len(drawLog') = 1
                      /\ drawLog'[1].layer = e.key
                      /\ wallpapers'[i].width = wallpapers[i].width
                      /\ wallpapers'[i].height = wallpapers[i].height
                      /\ wallpapers'[i].scale_factor = e.size[1]
                      /\ e.size[1] = wallpapers[i].scale_factor
                            => /\ wallpapers'[i].buf = wallpapers[i].buf
                               /\ wallpapers'[i].img = wallpapers[i].img ]_vars

\* C26: when frame has returned, the wallpapers are as they were; the
\* wallpaper of the layer surface was drawn exactly once, with its own
\* dimensions and buffer, and for a layer surface of no wallpaper nothing
\* was drawn.
C26_FrameDrawsOnce ==
    [][ Handled("frame")
          => LET i == FirstByLayer(wallpapers, hist'.last.key)
             IN  /\ wallpapers' = wallpapers
                 /\ outs' = outs
                 /\ drawLog' = IF i = 0 THEN <<>>
                               ELSE <<DrawCall(wallpapers[i])>> ]_vars

\* frame has returned for a surface that shows an image, which was drawn
C26_Witness ==
    /\ hist.last.ev = "frame"
    /\ hist.last.img.kind = "Img"
    /\ Len(drawLog) = 1
    /\ \E i \in Surfaces : /\ wallpapers[i].layer_surface = hist.last.key
                           /\ wallpapers[i].img = hist.last.img

\* the layer surfaces of the wallpapers ws
LayersOf(ws) == {ws[i].layer_surface : i \in 1..Len(ws)}

\* C27: when output_destroyed has returned, the wallpapers are those that
\* were of another output, in their order and as they were; when closed has
\* returned, they are those that were of another layer surface; neither
\* draws.  In every step, a layer surface among the wallpapers was there
\* before or is newly created, every draw issued is for a layer surface that
\* was among the wallpapers, and a query-state answer has as many entries as there are
\* wallpapers.
C27_RemovalIsExactAndFinal ==
    [][ /\ Handled("output_destroyed")
          => LET other(w) == w.output_id # hist'.last.key
             IN  /\ wallpapers' = SelectSeq(wallpapers, other)
                 /\ drawLog' = <<>>
        /\ Handled("closed")
          => LET other(w) == w.layer_surface # hist'.last.key
             IN  /\ wallpapers' = SelectSeq(wallpapers, other)
                 /\ drawLog' = <<>>
        /\ LayersOf(wallpapers') \subseteq LayersOf(wallpapers) \cup {nextLayer}
        /\ wallpapers' # <<>> => nextLayer' >= nextLayer
        /\ drawLog' # drawLog
              => \A k \in 1..Len(drawLog') :
                    drawLog'[k].layer \in LayersOf(wallpapers)
        /\ (pc' = "send" /\ conn'.answer.kind = "Info")
              => Len(conn'.answer.info) = Len(wallpapers') ]_vars

\* closed has returned for the layer surface of a wallpaper, which is gone
\* while a wallpaper of another layer surface is still there
C27_Witness ==
    /\ hist.last.ev = "closed"
    /\ hist.last.img # NoTag
    /\ hist.last.key \notin LayersOf(wallpapers)
    /\ Len(wallpapers) = 1

\* the pairs of imgs that are applied to the surface w, by position
PairsFor(imgs, w) == {k \in 1..Len(imgs) : ImgTargets(imgs[k], w)}

\* the draws of a set-image request: pair by pair in request order, and for
\* each pair the surfaces it is applied to in their order, each presenting
\* the image of the pair
RECURSIVE ImgDraws(_)
ImgDraws(imgs) ==
    IF imgs = <<>> THEN <<>>
    ELSE LET targeted(w) == ImgTargets(Head(imgs), w)
             ws == SelectSeq(wallpapers, targeted)
         IN  [j \in 1..Len(ws) |->
                 DrawCall([ws[j] EXCEPT !.buf = Head(imgs).img])]
             \o ImgDraws(Tail(imgs))

\* C28: when a set-image request has been handled, the answer is the one
\* success answer; the draws were issued pair by pair in request order, each
\* presenting the image of its pair; a surface no pair is applied to is as it
\* was, and any other surface has the image and path of the last pair applied
\* to it.
C28_PairsAppliedInOrder ==
    [][ (pc = "recv" /\ pc' = "send" /\ conn'.request.kind = "Img")
          => LET imgs == conn'.request.imgs
             IN  /\ conn'.answer = AnswerOk
                 /\ drawLog' = ImgDraws(imgs)
                 /\ Len(wallpapers') = Len(wallpapers)
                 /\ \A i \in Surfaces :
                       LET M == PairsFor(imgs, wallpapers[i])
                           last == CHOOSE k \in M : \A m \in M : m <= k
                       IN  wallpapers'[i] =
                             IF M = {} THEN wallpapers[i]
                             ELSE [wallpapers[i] EXCEPT
                                      !.buf = imgs[last].img,
                                      !.img = ImgTag(imgs[last].path)] ]_vars

\* a request of two pairs has been handled, both applied to one surface,
\* which was drawn with the first image and then with the second and shows
\* the second
C28_Witness ==
    /\ pc = "send" /\ conn.request.kind = "Img"
    /\ Len(conn.request.imgs) = 2
    /\ Len(drawLog) = 2
    /\ drawLog[1].buf = conn.request.imgs[1].img
    /\ drawLog[2].buf = conn.request.imgs[2].img
    /\ drawLog[1].buf # drawLog[2].buf
    /\ \E i \in Surfaces : /\ wallpapers[i].img = ImgTag("p2")
                           /\ wallpapers[i].buf = conn.request.imgs[2].img

----------------------------------------------------------------------------
(* Image preparation (imgproc.rs) and the texture upload (renderer.rs).    *)
(* A source image is an RgbImage: its dimensions and its pixels row by row, *)
(* each pixel with channels r, g, b.  Prepared bytes are kept as runs of    *)
(* groups of three bytes, in memory order.                                  *)

Rgb(r, g, b) == [r |-> r, g |-> g, b |-> b]

RgbImage(w, h, data) == [w |-> w, h |-> h, data |-> data]

\* source images: two pixels side by side and one above the other, a single
\* pixel, and a square of one colour; no pixel has r = b
SourceImages ==
    {RgbImage(2, 1, <<Rgb(1, 2, 3), Rgb(4, 5, 6)>>),
     RgbImage(1, 2, <<Rgb(1, 2, 3), Rgb(4, 5, 6)>>),
     RgbImage(1, 1, <<Rgb(1, 2, 3)>>),
     RgbImage(2, 2, [k \in 1..4 |-> Rgb(4, 5, 6)])}

Uniform(img) == \A k \in 1..Len(img.data) : img.data[k] = img.data[1]

\* ImageBuffer::into_vec: the channels of each pixel in the order r, g, b
into_vec(data) ==
    [k \in 1..Len(data) |-> Run(1, <<data[k].r, data[k].g, data[k].b>>)]

\* n times the group of bytes
Repeat(n, group) == IF n = 0 THEN <<>> ELSE <<Run(n, group)>>

\* fast_image_resize's convolution, for an image of one colour: the weights
\* of every destination pixel sum to one, so it has that colour
resizer_resize(img, width, height) ==
    Repeat(width * height, into_vec(img.data)[1].px)

\* pixel.swap(0, 2)
swap_0_2(pixel) == <<pixel[3], pixel[2], pixel[1]>>

img_resize(img, dimensions) ==
    LET resized_img == IF <<img.w, img.h>> # dimensions
                       THEN resizer_resize(img, dimensions[1], dimensions[2])
                       ELSE into_vec(img.data)
    IN  [k \in 1..Len(resized_img) |->
            Run(resized_img[k].n, swap_0_2(resized_img[k].px))]

Min(a, b) == IF a < b THEN a ELSE b

\* the rows 1..row of the cropped image, each between its side paddings
RECURSIVE PaddedRows(_, _, _, _, _)
PaddedRows(img, row, img_w, padded_w, pad) ==
    IF row = 0 THEN <<>>
    ELSE LET side == Repeat((padded_w - img_w) \div 2, pad)
             raw  == into_vec(img.data)
             line == [c \in 1..img_w |->
                          LET pixel == raw[(row - 1) * img.w + c].px
                          IN  Run(1, <<pixel[3], pixel[2], pixel[1]>>)]
         IN  PaddedRows(img, row - 1, img_w, padded_w, pad)
               \o side \o line \o side

img_pad(img, dimensions, color) ==
    LET padded_w == dimensions[1]
        padded_h == dimensions[2]
        img_w == Min(img.w, padded_w)
        img_h == Min(img.h, padded_h)
        pad == <<color[3], color[2], color[1]>>
        top == Repeat(((padded_h - img_h) \div 2) * padded_w, pad)
        padded == top \o PaddedRows(img, img_h, img_w, padded_w, pad)
    IN  padded \o Repeat(padded_h * padded_w - NPix(padded), pad)

\* the bytes as the payload of a set-image request
Payload(runs) == [px |-> Normalize(runs), tail |-> <<>>]

\* TexImage2D with format RGB and type UNSIGNED_BYTE: of each group of three
\* bytes the first is the red, the second the green, the third the blue
\* component of a texel
TexImage2D(call) ==
    [k \in 1..Len(call.buf.px) |->
        LET group == call.buf.px[k].px
        IN  Run(call.buf.px[k].n, Rgb(group[1], group[2], group[3]))]

\* the colours of the texels uploaded when w is drawn
Uploaded(w) ==
    LET texels == TexImage2D(DrawCall(w))
    IN  {texels[k].px : k \in 1..Len(texels)}

\* the surface w after set_img of the prepared pixels, if they fit its buffer
Stored(w, pixels) == set_img(w, Payload(pixels), "p1")

\* C29: for every surface, the texels uploaded after clear(C) all have the
\* colour r = C[0], g = C[1], b = C[2]; the texels uploaded after set_img of
\* an image prepared by img_resize are the source pixels in their order (of
\* the one source colour if the image was resampled); the texels uploaded
\* after set_img of an image prepared by img_pad have the colours of the
\* source pixels inside the crop and of the padding colour, and no other.
C29_UploadGetsRgb ==
    \A i \in Surfaces :
        LET w == wallpapers[i]
            dimensions == <<DrawCall(w).width, DrawCall(w).height>>
        IN  /\ \A C \in Colors :
                  Uploaded(clear(w, C)) \subseteq {Rgb(C[1], C[2], C[3])}
            /\ \A img \in SourceImages :
                  LET s == Stored(w, img_resize(img, dimensions))
                  IN  (s.st = "ok" /\ (<<img.w, img.h>> = dimensions \/ Uniform(img)))
                        => IF <<img.w, img.h>> = dimensions
                           THEN TexImage2D(DrawCall(s.w)) =
                                  Normalize([k \in 1..Len(img.data) |->
                                                Run(1, img.data[k])])
                           ELSE Uploaded(s.w) = {img.data[1]}
            /\ \A img \in SourceImages : \A C \in Colors :
                  LET s == Stored(w, img_pad(img, dimensions, C))
                  IN  s.st = "ok"
                        => /\ Uploaded(s.w) \subseteq
                                {img.data[k] : k \in 1..Len(img.data)}
                                   \cup {Rgb(C[1], C[2], C[3])}
                           /\ img.data[1] \in Uploaded(s.w)

\* every callback dispatched so far created a layer surface, so that no
\* surface has been configured yet
NoneConfigured ==
    /\ pc \notin {"exit", "done", "crashed"}
    /\ evSent - wlSocket - wlQueue = nextLayer - 1

\* C30: as long as no surface has been configured, a handler that draws and
\* returns is a configure callback.
C30_FirstDrawIsByConfigure ==
    [][ (/\ NoneConfigured
         /\ pc' \notin {"exit", "done", "crashed"}
         /\ drawLog' # drawLog /\ drawLog' # <<>>)
          => /\ pc \in DispatchPcs
             /\ wlQueue' = wlQueue - 1
             /\ hist'.last.ev = "configure" ]_vars

\* C31: no two wallpapers are of one output identity, and no two are of one
\* layer surface.
C31_OneSurfacePerOutputAndDrawable ==
    \A i, j \in Surfaces :
        i # j => /\ wallpapers[i].output_id # wallpapers[j].output_id
                 /\ wallpapers[i].layer_surface # wallpapers[j].layer_surface

\* an output was withdrawn and announced again, and its one wallpaper is of
\* the second layer surface created
C31_Witness ==
    /\ Recreated
    /\ Len(wallpapers) = 1
    /\ wallpapers[1].output_id = hist.last.key
    /\ wallpapers[1].layer_surface = 2

\* C32: no callback ends in the panic of a NonZeroU32 unwrap; when
\* new_output has returned, one wallpaper was added, of width, height and
\* scale at least 1; every wallpaper has width, height and scale at least 1.
C32_AnnounceNeverPanics ==
    [][ /\ (pc \in DispatchPcs /\ wlQueue' = wlQueue - 1)
              => result' # "NonZeroU32"
        /\ Handled("new_output")
              => /\ Len(wallpapers') = Len(wallpapers) + 1
                 /\ wallpapers'[Len(wallpapers')].output_id = hist'.last.key
        /\ \A i \in 1..Len(wallpapers') :
              /\ wallpapers'[i].width >= 1
              /\ wallpapers'[i].height >= 1
              /\ wallpapers'[i].scale_factor >= 1 ]_vars

\* C33: when SocketWrapper::new finds the path existing, main() returns an
\* error, the path still exists and this instance has not bound it; when
\* main() returns from SocketWrapper::new after binding, it returns an error
\* and the path is gone; no step removes the path unless this instance
\* bound it.
C33_FailedBindLeavesPath ==
    [][ /\ (pc = "new_socket" /\ pc' # pc /\ sockPath)
              => /\ pc' = "done" /\ result' = "err"
                 /\ sockPath' /\ ~bound'
        /\ (pc = "new_socket" /\ pc' = "done" /\ bound')
              => /\ result' = "err"
                 /\ ~sockPath'
        /\ (sockPath /\ ~sockPath') => bound' ]_vars

\* start-up has failed at a path another instance owns, which is still there
C33_Witness ==
    /\ pc = "done" /\ result = "err"
    /\ sockPath /\ ~bound

====
